---- MODULE Spec2Model ----
(***************************************************************************)
(* Model of the check_mk local checks of this repository:                  *)
(*   check_minio.py               MinIO cluster and bucket-occupation check *)
(*   check_rancher_containers.py  Rancher agents and stack services check   *)
(*   traefiker_status.py          Traefiker narrative-state counter         *)
(*                                                                         *)
(* Optional Python values are sets: None is {} and a value v is {v}.       *)
(* Byte counts are natural numbers.  The code divides sizes and quotas by  *)
(* 1024**3 (a power of two, exact in binary floating point) and compares   *)
(* (size_gb / quota_gb) * 100 with 80 and 90; the model keeps the byte     *)
(* counts and compares by cross-multiplication, which agrees with the      *)
(* double-precision result for every quota below 2^48 bytes.               *)
(***************************************************************************)
EXTENDS Integers, Sequences, FiniteSets

\* ------------------------------------------------------------- bounds
MaxQuota == 20
MaxServers == 2
MaxDrives == 1
MaxBuckets == 2
MaxHosts == 2
MaxServices == 2
MaxNarratives == 3
MaxSections == 1

\* ------------------------------------------------------------- helpers
None == {}

Some(v) == {v}

Val(x) == CHOOSE v \in x : TRUE

\* Python truthiness of an optional number: None and 0 are falsy.
Truthy(x) == x # None /\ Val(x) # 0

Max2(a, b) == IF a >= b THEN a ELSE b

SeqsUpTo(S, n) == UNION {[1..k -> S] : k \in 0..n}

\* ------------------------------------------------ check_minio: buckets
\* What `mc quota info` answers: the call fails, the JSON has no "quota"
\* key, or it has the number.
QuotaResponses == {[fail |-> TRUE, quota |-> None], [fail |-> FALSE, quota |-> None]}
                    \cup {[fail |-> FALSE, quota |-> Some(q)] : q \in 0..MaxQuota}

\* What `mc du` answers: the call fails, or size and object count.
SizeResponses == {[fail |-> TRUE, size |-> 0, objects |-> 0]}
                   \cup {[fail |-> FALSE, size |-> s, objects |-> o] :
                           s \in 0..(MaxQuota + 2), o \in {0, 3}}

get_bucket_quota(resp) ==
    IF resp.fail THEN None
    ELSE IF Truthy(resp.quota) THEN resp.quota
    ELSE None

get_bucket_size(resp) ==
    IF resp.fail THEN [size |-> None, objects |-> None]
    ELSE [size |-> Some(resp.size), objects |-> Some(resp.objects)]

\* BandStatus with the CRITICAL test written > 90 instead of >= 90.
BandStatusStrict(num, den) ==
    IF num > 90 * den THEN 2
    ELSE IF num > 80 * den THEN 1
    ELSE 0

\* usage_percentage is the rational num/den.
BandStatus(num, den) ==
    IF num >= 90 * den THEN 2
    ELSE IF num > 80 * den THEN 1
    ELSE 0

check_bucket(qresp, sresp) ==
    LET quota_bytes == get_bucket_quota(qresp)
        sz == get_bucket_size(sresp)
        size_bytes == sz.size
        objects == sz.objects
    IN  IF quota_bytes = None \/ size_bytes = None
        THEN IF ~Truthy(quota_bytes) /\ Truthy(size_bytes)
             THEN [status |-> 1, size |-> size_bytes, quota |-> None,
                   usage |-> None, objects |-> objects]
             ELSE [status |-> 3, size |-> None, quota |-> None,
                   usage |-> None, objects |-> None]
        ELSE LET num == IF Val(quota_bytes) > 0 THEN Val(size_bytes) * 100 ELSE 0
                 den == IF Val(quota_bytes) > 0 THEN Val(quota_bytes) ELSE 1
             IN  [status |-> BandStatus(num, den), size |-> size_bytes,
                  quota |-> quota_bytes, usage |-> Some(<<num, den>>),
                  objects |-> objects]

\* bucket.replace('/', '') on a name held as a sequence of characters.
RECURSIVE StripSlash(_)
StripSlash(name) ==
    IF name = <<>> THEN <<>>
    ELSE IF Head(name) = "/" THEN StripSlash(Tail(name))
    ELSE <<Head(name)>> \o StripSlash(Tail(name))

\* One printed line.  kind is "report" (a line that starts with a severity
\* code), "error" (an "Error retrieving ..." line of a fetcher), "text" (any
\* other line) or "crash" (an uncaught exception instead of a line).
Line(kind, code, label) ==
    [kind |-> kind, code |-> code, label |-> label, text |-> "",
     perf |-> "none", used |-> None, warn |-> None, crit |-> None,
     min |-> None, max |-> None, objects |-> None, pct |-> None,
     objtext |-> FALSE]

\* The line the main loop prints for one bucket.  perf is "thresholds"
\* (used;warn;crit;min;max), "plain" (used only) or "none"; warn and crit
\* are kept in tenths of a byte (quota * 0.8, quota * 0.9).  A None quota in
\* the threshold branch is a TypeError: kind "crash".
BucketLine(bucket, r) ==
    LET blank == Line("report", r.status, <<"Bucket_">> \o StripSlash(bucket))
    IN  IF r.size # None
        THEN IF ~Truthy(r.quota) /\ Truthy(r.size)
             THEN [blank EXCEPT !.perf = "plain", !.used = r.size,
                                !.objects = r.objects,
                                !.objtext = Val(r.objects) > 0]
             ELSE IF r.quota = None
                  THEN [blank EXCEPT !.kind = "crash"]
                  ELSE [blank EXCEPT !.perf = "thresholds", !.used = r.size,
                                     !.warn = Some(Val(r.quota) * 8),
                                     !.crit = Some(Val(r.quota) * 9),
                                     !.min = Some(0), !.max = r.quota,
                                     !.objects = r.objects, !.pct = r.usage,
                                     !.objtext = Val(r.objects) > 0]
        ELSE blank

\* The "Error retrieving ..." lines the two fetchers print inside
\* check_bucket: the quota fetch comes first, then the size fetch.
FetchErrors(qresp, sresp) ==
    (IF qresp.fail THEN <<Line("error", -1, <<"quota">>)>> ELSE <<>>)
      \o (IF sresp.fail THEN <<Line("error", -1, <<"size">>)>> ELSE <<>>)

\* ------------------------------------------------ check_minio: cluster
STATUS_STRINGS == <<"OK", "WARNING", "CRITICAL", "UNKNOWN">>

Drives == [state : {"ok", "offline"}, healing : BOOLEAN]

Servers == [state : {"online", "offline"}, drives : SeqsUpTo(Drives, MaxDrives)]

Topologies == [mode : {"online", "offline"}, servers : SeqsUpTo(Servers, MaxServers)]

\* The value of minio_info before it is fetched and after its last use.
NoInfo == [mode |-> "", servers |-> <<>>]

check_cluster_mode(info) == IF info.mode = "online" THEN 0 ELSE 2

\* DriveStatus with status = 1 instead of status = max(status, 1).
DriveStatusOverwrite(status, drive) ==
    IF drive.state # "ok" \/ drive.healing THEN 1 ELSE status

DriveStatus(status, drive) ==
    IF drive.state # "ok" \/ drive.healing THEN Max2(status, 1) ELSE status

RECURSIVE DrivesLoop(_, _)
DrivesLoop(status, drives) ==
    IF drives = <<>> THEN status
    ELSE DrivesLoop(DriveStatus(status, Head(drives)), Tail(drives))

ServerStatus(status, server) ==
    IF server.state # "online" THEN Max2(status, 2) ELSE status

RECURSIVE ServersLoop(_, _)
ServersLoop(status, servers) ==
    IF servers = <<>> THEN status
    ELSE ServersLoop(DrivesLoop(ServerStatus(status, Head(servers)),
                                Head(servers).drives),
                     Tail(servers))

check_server_and_drives(info) == ServersLoop(0, info.servers)

ClusterStatus(info) ==
    Max2(check_cluster_mode(info), check_server_and_drives(info))

SummaryLine(status) ==
    [Line("report", status, <<"MinIO">>) EXCEPT !.text = STATUS_STRINGS[status + 1]]

\* ------------------------------------------------------------- state
VARIABLES
    prog,        \* which script runs: "minio", "rancher", "traefiker", "unit"
    pc,          \* position in the script
    out,         \* the lines printed so far
    exitCode,    \* the process exit code; -1 while the process runs
    minio_info,  \* check_minio: the topology
    status,      \* check_minio: the status passed to exit()
    buckets,     \* check_minio: the list get_buckets returned
    idx,         \* index of the loop in progress (1-based)
    fetched,     \* check_minio: what the fetchers answered, per bucket done
    hostData,    \* rancher: the hosts' states
    stackData,   \* rancher: the stacks
    stackId,     \* rancher: index of the configured stack (0: not set)
    sections,    \* traefiker: config sections still to process
    narratives,  \* traefiker: the narrative_services of the response
    counts,      \* traefiker: the counts dict
    u_qresp,     \* check_bucket alone: the quota answer
    u_sresp,     \* check_bucket alone: the size answer
    u_result,    \* check_bucket alone: what check_bucket returned
    u_line       \* check_bucket alone: the line printed for it

procVars == <<prog, pc, out, exitCode, idx>>
minioVars == <<minio_info, status, buckets, fetched>>
rancherVars == <<hostData, stackData, stackId>>
traefVars == <<sections, narratives, counts>>
unitVars == <<u_qresp, u_sresp, u_result, u_line>>
vars == <<procVars, minioVars, rancherVars, traefVars, unitVars>>

NoCounts == [total |-> 0, active |-> 0, queued |-> 0]

NoResult == [status |-> 3, size |-> None, quota |-> None, usage |-> None,
             objects |-> None]

NoLine == Line("text", -1, <<>>)

Idle ==
    /\ pc = "start" /\ out = <<>> /\ exitCode = -1 /\ idx = 1
    /\ minio_info = NoInfo /\ status = 0 /\ buckets = <<>> /\ fetched = <<>>
    /\ hostData = <<>> /\ stackData = <<>> /\ stackId = 0
    /\ sections = 0 /\ narratives = <<>> /\ counts = NoCounts
    /\ u_result = NoResult /\ u_line = NoLine

Init ==
    /\ prog \in {"minio", "rancher", "traefiker"}
    /\ u_qresp = [fail |-> TRUE, quota |-> None]
    /\ u_sresp = [fail |-> TRUE, size |-> 0, objects |-> 0]
    /\ Idle

\* ------------------------------------------------ check_minio: __main__
BucketNames == {<<"a", "/">>, <<"b">>}

\* The fetchers' answers drawn during a whole run (a quota of 10: usage 0,
\* 50 % and 90 %).
RunQuotaResponses ==
    {[fail |-> TRUE, quota |-> None], [fail |-> FALSE, quota |-> None],
     [fail |-> FALSE, quota |-> Some(10)]}

RunSizeResponses ==
    {[fail |-> TRUE, size |-> 0, objects |-> 0],
     [fail |-> FALSE, size |-> 0, objects |-> 0],
     [fail |-> FALSE, size |-> 5, objects |-> 3],
     [fail |-> FALSE, size |-> 9, objects |-> 3]}

\* GetMinioInfoFail with the except branch returning None instead of
\* exiting: the summary is printed for an empty topology.
GetMinioInfoFailContinue ==
    /\ prog = "minio" /\ pc = "start"
    /\ out' = <<Line("error", -1, <<"info">>), SummaryLine(0)>>
    /\ exitCode' = 0
    /\ pc' = "done"
    /\ UNCHANGED <<prog, idx, minioVars, rancherVars, traefVars, unitVars>>

\* get_minio_info raises: line 85 prints, line 86 exits with 3.
GetMinioInfoFail ==
    /\ prog = "minio" /\ pc = "start"
    /\ out' = Append(out, Line("error", -1, <<"info">>))
    /\ exitCode' = 3
    /\ pc' = "done"
    /\ UNCHANGED <<prog, idx, minioVars, rancherVars, traefVars, unitVars>>

GetMinioInfo ==
    /\ prog = "minio" /\ pc = "start"
    /\ minio_info' \in Topologies
    /\ pc' = "info"
    /\ UNCHANGED <<prog, out, exitCode, idx, status, buckets, fetched,
                   rancherVars, traefVars, unitVars>>

\* Lines 126-130.
CheckCluster ==
    /\ prog = "minio" /\ pc = "info"
    /\ status' = ClusterStatus(minio_info)
    /\ pc' = "checked"
    /\ UNCHANGED <<prog, out, exitCode, idx, minio_info, buckets, fetched,
                   rancherVars, traefVars, unitVars>>

\* Line 133.
PrintSummary ==
    /\ prog = "minio" /\ pc = "checked"
    /\ out' = Append(out, SummaryLine(status))
    /\ pc' = "printed"
    /\ UNCHANGED <<prog, exitCode, idx, minioVars, rancherVars, traefVars,
                   unitVars>>

\* get_buckets raises: line 18 prints, line 19 returns [].  minio_info is
\* not read after line 129 and is forgotten here.
GetBucketsFail ==
    /\ prog = "minio" /\ pc = "printed"
    /\ out' = Append(out, Line("error", -1, <<"buckets">>))
    /\ buckets' = <<>>
    /\ minio_info' = NoInfo
    /\ idx' = 1
    /\ pc' = "loop"
    /\ UNCHANGED <<prog, exitCode, status, fetched, rancherVars, traefVars,
                   unitVars>>

GetBuckets ==
    /\ prog = "minio" /\ pc = "printed"
    /\ buckets' \in SeqsUpTo(BucketNames, MaxBuckets)
    /\ minio_info' = NoInfo
    /\ idx' = 1
    /\ pc' = "loop"
    /\ UNCHANGED <<prog, out, exitCode, status, fetched, rancherVars,
                   traefVars, unitVars>>

\* BucketStep with the else branch of line 152 printing nothing.
BucketStepSkip ==
    /\ prog = "minio" /\ pc = "loop" /\ idx <= Len(buckets)
    /\ \E qresp \in RunQuotaResponses, sresp \in RunSizeResponses :
         LET r == check_bucket(qresp, sresp)
         IN  /\ fetched' = Append(fetched, [q |-> qresp, s |-> sresp])
             /\ out' = out \o FetchErrors(qresp, sresp)
                           \o (IF r.size = None THEN <<>>
                               ELSE <<BucketLine(buckets[idx], r)>>)
             /\ idx' = idx + 1
    /\ UNCHANGED <<prog, pc, exitCode, minio_info, status, buckets,
                   rancherVars, traefVars, unitVars>>

\* One iteration of the loop of lines 137-153.
BucketStep ==
    /\ prog = "minio" /\ pc = "loop" /\ idx <= Len(buckets)
    /\ \E qresp \in RunQuotaResponses, sresp \in RunSizeResponses :
         LET line == BucketLine(buckets[idx], check_bucket(qresp, sresp))
         IN  /\ fetched' = Append(fetched, [q |-> qresp, s |-> sresp])
             /\ out' = out \o FetchErrors(qresp, sresp) \o <<line>>
             /\ IF line.kind = "crash"
                THEN pc' = "done" /\ exitCode' = 1 /\ idx' = idx
                ELSE pc' = pc /\ exitCode' = exitCode /\ idx' = idx + 1
    /\ UNCHANGED <<prog, minio_info, status, buckets, rancherVars, traefVars,
                   unitVars>>

\* Line 155.
MinioExit ==
    /\ prog = "minio" /\ pc = "loop" /\ idx > Len(buckets)
    /\ exitCode' = status
    /\ pc' = "done"
    /\ UNCHANGED <<prog, out, idx, minioVars, rancherVars, traefVars, unitVars>>

MinioNext ==
    \/ GetMinioInfoFail
    \/ GetMinioInfo
    \/ CheckCluster
    \/ PrintSummary
    \/ GetBucketsFail
    \/ GetBuckets
    \/ BucketStep
    \/ MinioExit

\* ------------------------------------------ check_rancher_containers
HostStates == {"active", "inactive"}

\* The configured rancher_stackname and service_list.
stackname == "kbase"

monitoredServices == {"web"}

\* A stack: its name and its serviceIds (the ids are opaque: one id value).
Stacks == [name : {"kbase", "other"}, serviceIds : SeqsUpTo({"1s1"}, MaxServices)]

StackLists == SeqsUpTo(Stacks, 2)

\* What /services/<id> answers.
ServiceAnswers == [name : {"web", "db"},
                   healthState : {"healthy", "unhealthy", "degraded"}]

\* Lines 43-51.
HostState(host) ==
    LET s1 == IF host # "active" THEN 2 ELSE 3
    IN  IF host = "active" THEN 0 ELSE s1

\* Lines 77-85.
ServiceState(svc) ==
    LET s1 == IF svc.healthState = "healthy" THEN 0 ELSE 3
    IN  IF svc.healthState = "unhealthy" THEN 2 ELSE s1

\* Line 66: the indices of the stacks named stackname, in order.
Matches(data) == {i \in 1..Len(data) : data[i].name = stackname}

FirstMatch(data) == CHOOSE i \in Matches(data) : \A j \in Matches(data) : i <= j

\* Lines 35-39: print the service list, fetch the hosts.
RancherHosts ==
    /\ prog = "rancher" /\ pc = "start"
    /\ out' = Append(out, Line("text", -1, <<"services">>))
    /\ hostData' \in SeqsUpTo(HostStates, MaxHosts)
    /\ idx' = 1
    /\ pc' = "hosts"
    /\ UNCHANGED <<prog, exitCode, minioVars, stackData, stackId, traefVars,
                   unitVars>>

\* One iteration of the loop of lines 42-58.
RancherHostStep ==
    /\ prog = "rancher" /\ pc = "hosts" /\ idx <= Len(hostData)
    /\ out' = Append(out, Line("report", HostState(hostData[idx]),
                               <<"rancher_agent_">>))
    /\ idx' = idx + 1
    /\ UNCHANGED <<prog, pc, exitCode, minioVars, rancherVars, traefVars,
                   unitVars>>

\* Lines 61-69 when no stack has the configured name: sys.exit(0).
RancherStackMissing ==
    /\ prog = "rancher" /\ pc = "hosts" /\ idx > Len(hostData)
    /\ \E data \in StackLists :
         /\ Matches(data) = {}
         /\ stackData' = data
    /\ exitCode' = 0
    /\ pc' = "done"
    /\ UNCHANGED <<prog, out, idx, minioVars, hostData, stackId, traefVars,
                   unitVars>>

\* Lines 61-66 when the stack is there.
RancherStackFound ==
    /\ prog = "rancher" /\ pc = "hosts" /\ idx > Len(hostData)
    /\ \E data \in StackLists :
         /\ Matches(data) # {}
         /\ stackData' = data
         /\ stackId' = FirstMatch(data)
    /\ idx' = 1
    /\ pc' = "services"
    /\ UNCHANGED <<prog, out, exitCode, minioVars, hostData, traefVars,
                   unitVars>>

\* One iteration of the loop of lines 71-87.
RancherServiceStep ==
    /\ prog = "rancher" /\ pc = "services"
    /\ idx <= Len(stackData[stackId].serviceIds)
    /\ \E svc \in ServiceAnswers :
         out' = IF svc.name \in monitoredServices
                THEN Append(out, Line("report", ServiceState(svc),
                                      <<"env_", stackname, "_", svc.name>>))
                ELSE out
    /\ idx' = idx + 1
    /\ UNCHANGED <<prog, pc, exitCode, minioVars, rancherVars, traefVars,
                   unitVars>>

\* The script ends: exit code 0.
RancherEnd ==
    /\ prog = "rancher" /\ pc = "services"
    /\ idx > Len(stackData[stackId].serviceIds)
    /\ exitCode' = 0
    /\ pc' = "done"
    /\ UNCHANGED <<prog, out, idx, minioVars, rancherVars, traefVars, unitVars>>

RancherNext ==
    \/ RancherHosts
    \/ RancherHostStep
    \/ RancherStackMissing
    \/ RancherStackFound
    \/ RancherServiceStep
    \/ RancherEnd

\* --------------------------------------------------- traefiker_status
\* A narrative's 'state': a string, or None when the key is missing.
NarrativeStates == {Some("active"), Some("queued"), Some("total"),
                    Some("error"), None}

\* Lines 37-42: counts['total'] += 1, then counts[narrative['state']] += 1
\* with every exception swallowed.
CountNarrative(c, state) ==
    LET c1 == [c EXCEPT !["total"] = @ + 1]
    IN  IF state # None /\ Val(state) \in DOMAIN c1
        THEN [c1 EXCEPT ![Val(state)] = @ + 1]
        ELSE c1

\* Lines 48-51: the sections to process.
TraefikerStart ==
    /\ prog = "traefiker" /\ pc = "start"
    /\ sections' \in 0..MaxSections
    /\ pc' = "section"
    /\ UNCHANGED <<prog, out, exitCode, idx, minioVars, rancherVars,
                   narratives, counts, unitVars>>

\* process_section, lines 22-34.
TraefikerRequest ==
    /\ prog = "traefiker" /\ pc = "section" /\ sections > 0
    /\ counts' = NoCounts
    /\ narratives' \in SeqsUpTo(NarrativeStates, MaxNarratives)
    /\ idx' = 1
    /\ pc' = "count"
    /\ UNCHANGED <<prog, out, exitCode, minioVars, rancherVars, sections,
                   unitVars>>

\* One iteration of the loop of lines 36-42.
TraefikerCount ==
    /\ prog = "traefiker" /\ pc = "count" /\ idx <= Len(narratives)
    /\ counts' = CountNarrative(counts, narratives[idx])
    /\ idx' = idx + 1
    /\ UNCHANGED <<prog, pc, out, exitCode, minioVars, rancherVars, sections,
                   narratives, unitVars>>

\* Line 44, and the return to the loop of line 53: the locals of
\* process_section are gone.
TraefikerPrint ==
    /\ prog = "traefiker" /\ pc = "count" /\ idx > Len(narratives)
    /\ out' = Append(out, [Line("text", -1, <<"counts">>) EXCEPT
                             !.used = Some(counts)])
    /\ sections' = sections - 1
    /\ narratives' = <<>>
    /\ counts' = NoCounts
    /\ idx' = 1
    /\ pc' = "section"
    /\ UNCHANGED <<prog, exitCode, minioVars, rancherVars, unitVars>>

TraefikerEnd ==
    /\ prog = "traefiker" /\ pc = "section" /\ sections = 0
    /\ exitCode' = 0
    /\ pc' = "done"
    /\ UNCHANGED <<prog, out, idx, minioVars, rancherVars, traefVars, unitVars>>

TraefikerNext ==
    \/ TraefikerStart
    \/ TraefikerRequest
    \/ TraefikerCount
    \/ TraefikerPrint
    \/ TraefikerEnd

Next == MinioNext \/ RancherNext \/ TraefikerNext

Spec == Init /\ [][Next]_vars

\* ------------------------------------- check_bucket on its own inputs
InitBucket ==
    /\ prog = "unit"
    /\ u_qresp \in QuotaResponses
    /\ u_sresp \in SizeResponses
    /\ Idle

\* Line 138.
CallCheckBucket ==
    /\ prog = "unit" /\ pc = "start"
    /\ u_result' = check_bucket(u_qresp, u_sresp)
    /\ pc' = "checked"
    /\ UNCHANGED <<prog, out, exitCode, idx, minioVars, rancherVars,
                   traefVars, u_qresp, u_sresp, u_line>>

\* Lines 139-153.
PrintBucket ==
    /\ prog = "unit" /\ pc = "checked"
    /\ u_line' = BucketLine(<<"a", "/">>, u_result)
    /\ pc' = "printed"
    /\ UNCHANGED <<prog, out, exitCode, idx, minioVars, rancherVars,
                   traefVars, u_qresp, u_sresp, u_result>>

NextBucket == CallCheckBucket \/ PrintBucket

SpecBucket == InitBucket /\ [][NextBucket]_vars

\* ------------------------------------------------------------ claims
IsReport(l) == l.kind = "report"

ReportLines(o) == SelectSeq(o, IsReport)

Codes(o) == [i \in 1..Len(ReportLines(o)) |-> ReportLines(o)[i].code]

RECURSIVE SeqMax(_)
SeqMax(s) == IF s = <<>> THEN 0 ELSE Max2(Head(s), SeqMax(Tail(s)))

MaxSeverity(o) == SeqMax(Codes(o))

Printed(kind, label) ==
    \E i \in 1..Len(out) : out[i].kind = kind /\ out[i].label = label

\* C1: when a run of check_minio or check_rancher_containers has printed
\* report lines and exited, the exit code is the maximum severity code over
\* all the report lines printed.
C1_ExitIsMaxSeverity ==
    (prog \in {"minio", "rancher"} /\ exitCode # -1 /\ ReportLines(out) # <<>>)
        => exitCode = MaxSeverity(out)

QuotaObtained == ~u_qresp.fail /\ u_qresp.quota # None /\ Val(u_qresp.quota) # 0

SizeObtained == ~u_sresp.fail

\* The band of used/quota, in tenths: 2 from 0.90 up, 1 above 0.80, else 0.
Band(used, quota) ==
    IF 10 * used >= 9 * quota THEN 2
    ELSE IF 10 * used > 8 * quota THEN 1
    ELSE 0

QuotaAbsent == ~u_qresp.fail /\ (u_qresp.quota = None \/ Val(u_qresp.quota) = 0)

\* C3: with the quota absent (not set, or zero) and the usage obtained,
\* check_bucket returns WARNING for every usage, 0 bytes included.
C3_QuotaAbsentIsWarning ==
    (prog = "unit" /\ pc # "start" /\ QuotaAbsent /\ SizeObtained) =>
        u_result.status = 1

FetchFailed(i) == fetched[i].q.fail \/ fetched[i].s.fail

\* C4: once the bucket loop is reached it prints one report line per bucket
\* processed after the summary line; the line
\* of a bucket with a failed quota or size fetch has code 3, and the line of
\* every bucket is the one its own fetch results give.
C4_FetchFailureIsolation ==
    (prog = "minio" /\ pc \in {"loop", "done"} /\ ~Printed("error", <<"info">>)) =>
        /\ Len(ReportLines(out)) = 1 + Len(fetched)
        /\ \A i \in 1..Len(fetched) :
             /\ FetchFailed(i) => ReportLines(out)[i + 1].code = 3
             /\ ReportLines(out)[i + 1] =
                  BucketLine(buckets[i], check_bucket(fetched[i].q, fetched[i].s))

BadDrive(d) == d.state # "ok" \/ d.healing

BadDrives(info) ==
    {<<i, j>> \in (1..MaxServers) \X (1..MaxDrives) :
        /\ i <= Len(info.servers)
        /\ j <= Len(info.servers[i].drives)
        /\ BadDrive(info.servers[i].drives[j])}

ServerDown(info) ==
    \E i \in 1..Len(info.servers) : info.servers[i].state # "online"

ExpectedCluster(info) ==
    IF info.mode # "online" \/ ServerDown(info) THEN 2
    ELSE IF BadDrives(info) # {} THEN 1
    ELSE 0

\* C5: the code of the cluster summary line is 2 when the mode is not online
\* or some server is not online, else 1 when some drive is not ok or is
\* healing, else 0.
C5_ClusterRollup ==
    (prog = "minio" /\ pc = "printed") =>
        /\ out[Len(out)].kind = "report"
        /\ out[Len(out)].label = <<"MinIO">>
        /\ out[Len(out)].code = ExpectedCluster(minio_info)

\* The summary has been printed as WARNING for an online cluster whose
\* servers are all online and that has two unhealthy drives.
C5_Witness ==
    /\ prog = "minio" /\ pc = "printed"
    /\ minio_info.mode = "online" /\ ~ServerDown(minio_info)
    /\ Cardinality(BadDrives(minio_info)) >= 2
    /\ out[Len(out)].code = 1

\* C6: when get_minio_info has failed the process has exited with code 3 and
\* no report line with a code other than 3 has been printed.
C6_InfoFailureIsUnknown ==
    (prog = "minio" /\ Printed("error", <<"info">>)) =>
        /\ exitCode = 3
        /\ \A i \in 1..Len(out) : out[i].kind = "report" => out[i].code = 3

C6_Witness ==
    /\ prog = "minio" /\ pc = "done" /\ Printed("error", <<"info">>)
    /\ exitCode = 3

\* C7: when the process has exited, every failure has a report line: the
\* topology fetch failure, the bucket listing failure, each failed bucket
\* fetch, and the configured Rancher stack not being found, which does not
\* end in exit code 0 with nothing printed for it.
C7_EveryFailureReported ==
    (pc = "done" /\ exitCode # -1) =>
        /\ (prog = "minio" /\ Printed("error", <<"info">>)) =>
              ReportLines(out) # <<>>
        /\ (prog = "minio" /\ Printed("error", <<"buckets">>)) =>
              ReportLines(out) # <<>>
        /\ (prog = "minio" /\ ~Printed("error", <<"info">>)) =>
              Len(ReportLines(out)) = 1 + Len(fetched)
        /\ (prog = "rancher" /\ stackId = 0) =>
              /\ \E i \in 1..Len(out) :
                    /\ out[i].kind = "report"
                    /\ out[i].label # <<"rancher_agent_">>
              /\ exitCode # 0

ExpectedLabel(b) ==
    IF b = <<"a", "/">> THEN <<"Bucket_", "a">> ELSE <<"Bucket_", "b">>

\* C8: in check_minio the first report line is the cluster summary, and the
\* report lines after it are the lines of the buckets processed so far, in
\* the order bucket discovery returned them; at exit every bucket has one.
C8_LineOrder ==
    (prog = "minio" /\ ReportLines(out) # <<>>) =>
        /\ ReportLines(out)[1].label = <<"MinIO">>
        /\ pc \in {"loop", "done"} =>
             /\ Len(ReportLines(out)) = idx
             /\ \A j \in 1..(idx - 1) :
                  ReportLines(out)[j + 1].label = ExpectedLabel(buckets[j])
        /\ pc = "done" => idx = Len(buckets) + 1

\* The run has exited after two different buckets, the second with a failed
\* fetch.
C8_Witness ==
    /\ prog = "minio" /\ pc = "done" /\ Len(buckets) = 2
    /\ buckets[1] # buckets[2]
    /\ FetchFailed(2)
    /\ Len(ReportLines(out)) = 3

\* C9: the bucket line has the threshold suffix (80 % and 90 % of the quota,
\* 0, the quota) exactly when a size and a non-zero quota were obtained, a
\* perf-data segment without thresholds exactly when the size was obtained
\* and the quota is absent, no perf-data exactly when the status is UNKNOWN,
\* and the threshold branch never meets a None quota.
C9_PerfData ==
    (prog = "unit" /\ pc = "printed") =>
        /\ u_line.kind # "crash"
        /\ u_line.perf = "thresholds" <=> (SizeObtained /\ QuotaObtained)
        /\ u_line.perf = "thresholds" =>
             /\ 10 * Val(u_line.warn) = 8 * 10 * Val(u_qresp.quota)
             /\ 10 * Val(u_line.crit) = 9 * 10 * Val(u_qresp.quota)
             /\ u_line.min = Some(0)
             /\ u_line.max = u_qresp.quota
        /\ u_line.perf = "plain" <=> (SizeObtained /\ ~QuotaObtained)
        /\ u_line.perf = "none" <=> u_line.code = 3

Count(s, x) == Cardinality({i \in 1..Len(s) : s[i] = x})

\* C10: when the loop of process_section ends, counts['total'] is the number
\* of narrative services and counts['active'] and counts['queued'] are the
\* numbers of services with exactly that state.
C10_Counts ==
    (prog = "traefiker" /\ pc = "count" /\ idx > Len(narratives)) =>
        /\ counts["total"] = Len(narratives)
        /\ counts["active"] = Count(narratives, Some("active"))
        /\ counts["queued"] = Count(narratives, Some("queued"))

====
